---- MODULE Spec2Model ----
(***************************************************************************)
(* Model of the startup analyzer's analysis core:                          *)
(*   - the six agents' model-call-and-parse code (backend/agents/*.py),    *)
(*   - the orchestrator (api_backend/backend/agents/agent_orchestrator.py),*)
(*   - the analysis router and its in-memory status map                    *)
(*     (routes/analysis.py).                                               *)
(*   - the retrieval service (backend/services/rag_system.py) and the      *)
(*     chunking of document texts (backend/services/document_processor.py).*)
(*                                                                         *)
(* A JSON value is [kind, obj]: kind is "object", "array" or "scalar" and  *)
(* obj is the mapping of an object (a TLA+ record keyed by the JSON keys). *)
(* An exception leaving a function is [kind |-> "exception", msg].         *)
(* A model response text is a sequence of whitespace-separated tokens:     *)
(* a json-tagged code fence, a bare code fence, prose without braces, or  *)
(* a JSON literal.                                                         *)
(***************************************************************************)
EXTENDS Integers, Sequences, FiniteSets, Bags, TLC

VARIABLES
    analysis_storage,   \* routes/analysis.py: startup_id -> entry (or NoEntry)
    tasks,              \* background tasks added by start_analysis
    response,           \* the HTTP response of the last request handled
    call,               \* one stage call: its stage, upstream artifacts, model outcome
    artifact,           \* what that stage call returned (or NotCalled)
    collection,         \* RAGSystem.collection: the records of "startup_documents"
    retrieved,          \* the outcome of the last RAGSystem call
    chunked             \* a text and what chunk_documents returned for it

vars == <<analysis_storage, tasks, response, call, artifact,
          collection, retrieved, chunked>>

----------------------------------------------------------------------------
(* Bounds *)

MaxCommentary == 1  \* paragraphs of commentary before and after the JSON
MaxTasks == 2       \* background tasks alive at once
MaxRecords == 5     \* records in the collection
MaxResults == 2     \* n_results asked of a query
MaxRuns == 2        \* runs of one character a document text is made of

----------------------------------------------------------------------------
(* JSON values and exceptions *)

EmptyObj == [k \in {} |-> "x"]

JObject(o) == [kind |-> "object", obj |-> o]
JArray == [kind |-> "array", obj |-> EmptyObj]
JScalar == [kind |-> "scalar", obj |-> EmptyObj]

Raised(m) == [kind |-> "exception", obj |-> EmptyObj, msg |-> m]

IsRaised(v) == v.kind = "exception"
IsDict(v) == v.kind = "object"
Keys(v) == DOMAIN v.obj

\* dict.get(key, default) of a mapping
Get(o, k, d) == IF k \in DOMAIN o THEN o[k] ELSE d

\* the mapping o after o[k] = v
Put(o, k, v) == [x \in (DOMAIN o) \cup {k} |-> IF x = k THEN v ELSE o[x]]

\* a list value and a value that is not a list, for keys the code tests with
\* isinstance(.., list) or iterates over
JList(items) == [list |-> TRUE, items |-> items]
NotAList == [list |-> FALSE, items |-> <<>>]

\* an entry of red_flags: a mapping with a severity, or something that is
\* not a mapping (the model wrote a bare string)
Flag(sev) == [dict |-> TRUE, severity |-> sev]
BareFlag == [dict |-> FALSE, severity |-> ""]

----------------------------------------------------------------------------
(* Model response texts *)

\* Every token also carries its lines, each line given as the set of
\* severities one of whose keywords (risk_keywords) occurs in it.
NoKeyword == {}
FenceJson == [t |-> "fence_json", v |-> JScalar, lines |-> <<NoKeyword>>]
Fence == [t |-> "fence", v |-> JScalar, lines |-> <<NoKeyword>>]
ProseLines(ls) == [t |-> "prose", v |-> JScalar, lines |-> ls]
Prose == ProseLines(<<NoKeyword>>)
Lit(v) == [t |-> "json", v |-> v, lines |-> <<NoKeyword>>]

\* The outcome of model.invoke: the text it returned (exc = "") or the class
\* of the exception it raised.  json.JSONDecodeError is kept apart from the
\* other classes because RiskDetectionAgent has a handler of its own for it.
ExceptionClasses == {"JSONDecodeError", "APIError"}
Returned(text) == [exc |-> "", text |-> text]
InvokeRaised(class) == [exc |-> class, text |-> <<>>]

DropFirst(s) == SubSeq(s, 2, Len(s))
DropLast(s) == SubSeq(s, 1, Len(s) - 1)

\* The fence cleanup shared by five agents.  The test for a leading bare
\* fence runs on the text as left by the [7:] slice, which begins with the
\* whitespace that followed the json-tagged fence, so the two prefix tests
\* never both fire.
StripFences(text) ==
    LET a == IF Len(text) > 0 /\ Head(text) = FenceJson THEN DropFirst(text)
             ELSE IF Len(text) > 0 /\ Head(text) = Fence THEN DropFirst(text)
             ELSE text
    IN IF Len(a) > 0 /\ a[Len(a)] = Fence THEN DropLast(a) ELSE a

\* a token written with braces
HasBrace(tok) == tok.t = "json" /\ tok.v.kind = "object"

BraceIdx(text) == {i \in 1..Len(text) : HasBrace(text[i])}
MinOf(S) == CHOOSE i \in S : \A j \in S : i <= j
MaxOf(S) == CHOOSE i \in S : \A j \in S : j <= i

\* RiskDetectionAgent._clean_json_response: the regular expressions eat the
\* whitespace after a fence, so both prefix patterns can fire in turn; then
\* everything before the first "{" and after the last "}" is dropped.
clean_json_response(text) ==
    LET a == IF Len(text) > 0 /\ Head(text) = FenceJson THEN DropFirst(text) ELSE text
        b == IF Len(a) > 0 /\ Head(a) = Fence THEN DropFirst(a) ELSE a
        c == IF Len(b) > 0 /\ b[Len(b)] = Fence THEN DropLast(b) ELSE b
        d == IF BraceIdx(c) # {} THEN SubSeq(c, MinOf(BraceIdx(c)), Len(c)) ELSE c
    IN IF BraceIdx(d) # {} THEN SubSeq(d, 1, MaxOf(BraceIdx(d))) ELSE d

\* json.loads: succeeds exactly on a text that is one JSON literal
Parses(text) == Len(text) = 1 /\ text[1].t = "json"
loads(text) == IF Parses(text) THEN text[1].v ELSE Raised("JSONDecodeError")

----------------------------------------------------------------------------
(* Agent 1: DataExtractionAgent *)

\* nested values are kept by shape: "dict" for a mapping, "scalar" otherwise
Extraction_get_default_structure ==
    JObject([company_info |-> "dict", business |-> "dict", metrics |-> "dict",
             team |-> "dict", funding |-> "dict", traction |-> "dict"])

\* the try block of a stage that returns whatever json.loads produced
ParseOrDefault(model, default) ==
    IF model.exc # "" THEN default
    ELSE LET data == loads(StripFences(model.text))
         IN IF IsRaised(data) THEN default ELSE data

extract(model) == ParseOrDefault(model, Extraction_get_default_structure)

----------------------------------------------------------------------------
(* Agent 2: BenchmarkingAgent *)

Benchmark_get_default_structure ==
    JObject([sector_benchmarks |-> "dict", comparisons |-> "dict",
             competitive_position |-> "dict", benchmark_score |-> 50,
             summary |-> "Unable to benchmark due to insufficient data"])

\* x.get(key, {}).get(..): raises unless x[key] is absent or a mapping
ChainedGetRaises(o, key) == key \in DOMAIN o /\ o[key] # "dict"

\* the try block of a stage that calls data.get(..) in its success message:
\* a parsed value that is not a mapping ends in the except branch
ParseDictOrDefault(model, default) ==
    IF model.exc # "" THEN default
    ELSE LET data == loads(StripFences(model.text))
         IN IF IsRaised(data) \/ ~IsDict(data) THEN default ELSE data

\* lines 24-59, before the try: the reads of extracted_data that raise
BenchmarkInputsRaise(extracted_data) ==
    \/ ~IsDict(extracted_data)
    \/ \E k \in {"company_info", "team", "metrics"} :
          ChainedGetRaises(extracted_data.obj, k)

benchmark(extracted_data, model) ==
    IF BenchmarkInputsRaise(extracted_data) THEN Raised("AttributeError")
    ELSE ParseDictOrDefault(model, Benchmark_get_default_structure)

----------------------------------------------------------------------------
(* Agent 3: RiskDetectionAgent *)

Risk_get_default_structure ==
    JObject([red_flags |-> JList(<<>>), risk_score |-> 50,
             overall_assessment |-> "Unable to assess - analysis error",
             error_note |-> "Risk detection encountered an error"])

\* risk_keywords, in the order the dict is iterated
SeverityOrder == <<"CRITICAL", "HIGH", "MEDIUM", "LOW">>

\* a loop over risk_keywords without the break: the last match wins
FirstSeverity_LastMatch(line) ==
    SeverityOrder[MaxOf({i \in 1..4 : SeverityOrder[i] \in line})]

\* the severity of the flag a line yields: the first whose keywords match
FirstSeverity(line) ==
    SeverityOrder[MinOf({i \in 1..4 : SeverityOrder[i] \in line})]

RECURSIVE LinesOf(_)
LinesOf(text) ==
    IF text = <<>> THEN <<>> ELSE Head(text).lines \o LinesOf(Tail(text))

RECURSIVE FlagsOfLines(_)
FlagsOfLines(lines) ==
    IF lines = <<>> THEN <<>>
    ELSE (IF Head(lines) # NoKeyword THEN <<Flag(FirstSeverity(Head(lines)))>> ELSE <<>>)
         \o FlagsOfLines(Tail(lines))

Min(a, b) == IF a < b THEN a ELSE b

\* a recovery that builds its record without the assessment
extract_partial_or_default_NoAssessment(text) ==
    LET red_flags == FlagsOfLines(LinesOf(text))
    IN JObject([red_flags |-> JList(SubSeq(red_flags, 1, Min(5, Len(red_flags)))),
                risk_score |-> 50,
                parsing_note |-> "JSON parsing failed, extracted partial information"])

\* a recovery whose score is not capped
extract_partial_or_default_Uncapped(text) ==
    LET red_flags == FlagsOfLines(LinesOf(text))
    IN JObject([red_flags |-> JList(SubSeq(red_flags, 1, Min(5, Len(red_flags)))),
                risk_score |-> IF Len(red_flags) > 0 THEN 40 + Len(red_flags) * 10 ELSE 50,
                overall_assessment |-> "Manual Review Required",
                parsing_note |-> "JSON parsing failed, extracted partial information"])

\* lines 180-218
extract_partial_or_default(text) ==
    LET red_flags == FlagsOfLines(LinesOf(text))
        risk_score == IF Len(red_flags) > 0
                      THEN Min(90, 40 + Len(red_flags) * 10) ELSE 50
    IN JObject([red_flags |-> JList(SubSeq(red_flags, 1, Min(5, Len(red_flags)))),
                risk_score |-> risk_score,
                overall_assessment |-> "Manual Review Required",
                parsing_note |-> "JSON parsing failed, extracted partial information"])

\* a validation that back-fills every missing key from the fallback artifact
RiskValidate_FromFallback(o) ==
    LET d == Risk_get_default_structure.obj
        a == IF "red_flags" \in DOMAIN o /\ o.red_flags.list
             THEN o ELSE Put(o, "red_flags", d.red_flags)
        b == IF "risk_score" \in DOMAIN a THEN a ELSE Put(a, "risk_score", d.risk_score)
    IN IF "overall_assessment" \in DOMAIN b THEN b
       ELSE Put(b, "overall_assessment", d.overall_assessment)

\* lines 133-138: the structure validation of a parsed mapping
RiskValidate(o) ==
    LET a == IF "red_flags" \in DOMAIN o /\ o.red_flags.list
             THEN o ELSE Put(o, "red_flags", JList(<<>>))
        b == IF "risk_score" \in DOMAIN a THEN a ELSE Put(a, "risk_score", 50)
    IN IF "overall_assessment" \in DOMAIN b THEN b
       ELSE Put(b, "overall_assessment", "Medium Risk")

\* When model.invoke itself raises json.JSONDecodeError, the handler of lines
\* 143-148 reads response_text, which line 124 never bound: the handler
\* raises UnboundLocalError, which no clause of the same try catches.
detect_risks(extracted_data, model) ==
    IF model.exc = "JSONDecodeError" THEN Raised("UnboundLocalError")
    ELSE IF model.exc # "" THEN Risk_get_default_structure
    ELSE LET response_text == clean_json_response(model.text)
             data == loads(response_text)
         IN IF IsRaised(data) THEN extract_partial_or_default(response_text)
            ELSE IF ~IsDict(data) THEN Risk_get_default_structure
            ELSE JObject(RiskValidate(data.obj))

----------------------------------------------------------------------------
(* Agent 4: MarketResearchAgent *)

Market_get_default_structure ==
    JObject([validations |-> "dict", market_insights |-> "dict",
             credibility_score |-> 50])

\* lines 24-25, before the try
ResearchInputsRaise(extracted_data) ==
    \/ ~IsDict(extracted_data)
    \/ ChainedGetRaises(extracted_data.obj, "company_info")

research(extracted_data, model) ==
    IF ResearchInputsRaise(extracted_data) THEN Raised("AttributeError")
    ELSE ParseOrDefault(model, Market_get_default_structure)

----------------------------------------------------------------------------
(* Agent 5: GrowthAgent *)

Growth_get_default_structure ==
    JObject([growth_scores |-> "dict", overall_growth_score |-> 5,
             growth_trajectory |-> "Unclear", time_to_scale |-> "Unclear",
             exit_potential |-> "dict", growth_plan_quality |-> "dict",
             recommendation_summary |-> "Insufficient data for growth assessment"])

\* a growth stage that lets the error of model.invoke out
assess_growth_PropagatesInvokeError(extracted_data, benchmark_data, model) ==
    IF model.exc # "" THEN Raised(model.exc)
    ELSE ParseDictOrDefault(model, Growth_get_default_structure)

assess_growth(extracted_data, benchmark_data, model) ==
    ParseDictOrDefault(model, Growth_get_default_structure)

----------------------------------------------------------------------------
(* Agent 6: RecommendationAgent *)

\* the except branch of generate_recommendation, e the caught exception
RecommendationFallback(e) ==
    JObject([decision |-> "MAYBE", confidence |-> 50,
             investment_thesis |-> "Unable to generate recommendation",
             key_strengths |-> JList(<<"Analysis data collected successfully">>),
             key_concerns |-> JList(<<"Analysis incomplete - technical error occurred",
                                      "Error: " \o e>>),
             suggested_valuation |-> "None", suggested_investment |-> "None",
             follow_up_questions |-> JList(<<"Please rerun the analysis">>),
             deal_score |-> 50, next_steps |-> "Manual review required"])

\* line 26: the red flags whose severity is CRITICAL
critical_flags(risk_analysis) ==
    SelectSeq(Get(risk_analysis.obj, "red_flags", JList(<<>>)).items,
              LAMBDA f : f.severity = "CRITICAL")

CriticalConcern(n) ==
    "CRITICAL: " \o ToString(n) \o " critical red flags detected"

\* a check without the override of lines 131-134
RecommendationChecked_NoOverride(o, n_critical) ==
    IF "decision" \notin DOMAIN o \/ "confidence" \notin DOMAIN o
    THEN RecommendationFallback("KeyError")
    ELSE JObject(o)

\* lines 126-140, data a parsed mapping: the override, then the two
\* subscripts data['decision'] and data['confidence'] of the success message
RecommendationChecked(o, n_critical) ==
    LET decision == Get(o, "decision", "MAYBE")
        fires == n_critical > 0 /\ decision = "INVEST"
    IN IF fires /\ "key_concerns" \notin DOMAIN o
       THEN RecommendationFallback("KeyError")
       ELSE IF fires /\ ~o.key_concerns.list
       THEN RecommendationFallback("AttributeError")
       ELSE LET data == IF fires
                        THEN [Put(o, "decision", "PASS") EXCEPT !.key_concerns =
                                 JList(<<CriticalConcern(n_critical)>> \o o.key_concerns.items)]
                        ELSE o
            IN IF "decision" \notin DOMAIN data \/ "confidence" \notin DOMAIN data
               THEN RecommendationFallback("KeyError")
               ELSE JObject(data)

\* lines 22-26, before the try: .get on the three artifacts, len() and the
\* comprehension over red_flags, f.get on each of its entries
RecommendationInputsRaise(risk_analysis, benchmark_data, growth_assessment) ==
    \/ ~IsDict(risk_analysis) \/ ~IsDict(benchmark_data) \/ ~IsDict(growth_assessment)
    \/ LET red_flags == Get(risk_analysis.obj, "red_flags", JList(<<>>))
       IN \/ ~red_flags.list
          \/ \E i \in DOMAIN red_flags.items : ~red_flags.items[i].dict

generate_recommendation(extracted_data, risk_analysis, market_research, benchmark_data, growth_assessment, model) ==
    IF RecommendationInputsRaise(risk_analysis, benchmark_data, growth_assessment)
    THEN Raised("AttributeError")
    ELSE IF model.exc # "" THEN RecommendationFallback(model.exc)
    ELSE LET data == loads(StripFences(model.text))
         IN IF IsRaised(data) THEN RecommendationFallback("JSONDecodeError")
            ELSE IF ~IsDict(data) THEN RecommendationFallback("AttributeError")
            ELSE RecommendationChecked(data.obj, Len(critical_flags(risk_analysis)))

----------------------------------------------------------------------------
(* Model responses the pipeline is run against *)

FullExtraction ==
    JObject([company_info |-> "dict", business |-> "dict", metrics |-> "dict",
             team |-> "dict", funding |-> "dict", traction |-> "dict"])
FullBenchmark ==
    JObject([sector_benchmarks |-> "dict", comparisons |-> "dict",
             competitive_position |-> "dict", benchmark_score |-> 72,
             summary |-> "model summary"])
FullRisk(flags) ==
    JObject([red_flags |-> JList(flags), risk_score |-> 80,
             overall_assessment |-> "High Risk"])
FullMarket ==
    JObject([validations |-> "dict", market_insights |-> "dict",
             credibility_score |-> 70])
FullGrowth ==
    JObject([growth_scores |-> "dict", overall_growth_score |-> 8,
             growth_trajectory |-> "Strong", time_to_scale |-> "2 years",
             exit_potential |-> "dict", growth_plan_quality |-> "dict",
             recommendation_summary |-> "model summary"])
FullRecommendation(decision) ==
    JObject([decision |-> decision, confidence |-> 85,
             investment_thesis |-> "model thesis",
             key_strengths |-> JList(<<"Strength 1">>),
             key_concerns |-> JList(<<"Concern 1">>),
             suggested_valuation |-> "range", suggested_investment |-> "amount",
             follow_up_questions |-> JList(<<"Question 1">>),
             deal_score |-> 75, next_steps |-> "model next steps"])

StageOrder == <<"extract", "benchmark", "detect_risks", "research",
                "assess_growth", "generate_recommendation">>
ArtifactKey == <<"extracted_data", "benchmark_data", "risk_analysis",
                 "market_research", "growth_assessment", "recommendation">>
Artifacts == {ArtifactKey[i] : i \in 1..6}

\* what the model backend does when a run reaches stage i
SampleOutcomes(i) ==
    CASE i = 1 -> {Returned(<<Lit(FullExtraction)>>), Returned(<<Lit(JArray)>>)}
      [] i = 2 -> {Returned(<<Lit(FullBenchmark)>>)}
      [] i = 3 -> {Returned(<<FenceJson, Lit(FullRisk(<<Flag("CRITICAL")>>)), Fence>>),
                   Returned(<<Lit(FullRisk(<<BareFlag>>))>>),
                   InvokeRaised("JSONDecodeError")}
      [] i = 4 -> {Returned(<<Lit(FullMarket)>>)}
      [] i = 5 -> {Returned(<<Lit(FullGrowth)>>), InvokeRaised("APIError")}
      [] i = 6 -> {Returned(<<Lit(FullRecommendation("INVEST"))>>),
                   InvokeRaised("APIError")}

----------------------------------------------------------------------------
(* AgentOrchestrator.analyze_startup *)

\* lines 30-33
InitialResults(startup_id) == [startup_id |-> startup_id, status |-> "processing"]

\* an orchestrator that hands the growth stage the risk artifact where the
\* benchmark artifact belongs
StageInputs_GrowthGetsRisk(i, results) ==
    CASE i = 1 -> EmptyObj
      [] i \in {2, 3, 4} -> [extracted_data |-> results.extracted_data]
      [] i = 5 -> [extracted_data |-> results.extracted_data,
                   benchmark_data |-> results.risk_analysis]
      [] i = 6 -> [extracted_data |-> results.extracted_data,
                   risk_analysis |-> results.risk_analysis,
                   market_research |-> results.market_research,
                   benchmark_data |-> results.benchmark_data,
                   growth_assessment |-> results.growth_assessment]

\* lines 37-67: the artifacts in the argument list of stage i's call, by
\* parameter name; each local variable equals the entry of results stored
\* under the same name
StageInputs(i, results) ==
    CASE i = 1 -> EmptyObj
      [] i \in {2, 3, 4} -> [extracted_data |-> results.extracted_data]
      [] i = 5 -> [extracted_data |-> results.extracted_data,
                   benchmark_data |-> results.benchmark_data]
      [] i = 6 -> [extracted_data |-> results.extracted_data,
                   risk_analysis |-> results.risk_analysis,
                   market_research |-> results.market_research,
                   benchmark_data |-> results.benchmark_data,
                   growth_assessment |-> results.growth_assessment]

\* the call of stage i
CallStage(i, results, model) ==
    LET a == StageInputs(i, results)
    IN CASE i = 1 -> extract(model)
         [] i = 2 -> benchmark(a.extracted_data, model)
         [] i = 3 -> detect_risks(a.extracted_data, model)
         [] i = 4 -> research(a.extracted_data, model)
         [] i = 5 -> assess_growth(a.extracted_data, a.benchmark_data, model)
         [] i = 6 -> generate_recommendation(a.extracted_data, a.risk_analysis,
                                             a.market_research, a.benchmark_data,
                                             a.growth_assessment, model)

\* an except branch that starts from a fresh record instead of results
AnalyzeExcept_DropsArtifacts(results, e) ==
    [results |-> [startup_id |-> results.startup_id, status |-> "failed", error |-> e.msg],
     exc |-> ""]

\* an except branch that lets the exception through
AnalyzeExcept_Reraises(results, e) ==
    [results |-> results, exc |-> e.msg]

\* lines 78-84: the except branch; analyze_startup returns results and
\* lets no exception out (exc is what propagates to the caller)
AnalyzeExcept(results, e) ==
    [results |-> Put(Put(results, "status", "failed"), "error", e.msg), exc |-> ""]

\* stage i, called with the artifacts in results, gets as far as model.invoke
InvokeReached(i, results) ==
    CASE i = 2 -> ~BenchmarkInputsRaise(results.extracted_data)
      [] i = 4 -> ~ResearchInputsRaise(results.extracted_data)
      [] i = 6 -> ~RecommendationInputsRaise(results.risk_analysis, results.benchmark_data,
                                             results.growth_assessment)
      [] OTHER -> TRUE

\* what stage i returns when its except Exception branch catches exc
StageFallback(i, exc) ==
    CASE i = 1 -> Extraction_get_default_structure
      [] i = 2 -> Benchmark_get_default_structure
      [] i = 3 -> Risk_get_default_structure
      [] i = 4 -> Market_get_default_structure
      [] i = 5 -> Growth_get_default_structure
      [] i = 6 -> RecommendationFallback(exc)

\* one stage of the try block: [pc, results, exc] after it
AnalyzeStep(i, results, model) ==
    LET r == CallStage(i, results, model)
    IN IF IsRaised(r)
       THEN [pc |-> 7] @@ AnalyzeExcept(results, r)
       ELSE [pc |-> i + 1, exc |-> "",
             results |-> IF i = 6
                         THEN Put(Put(results, ArtifactKey[i], r), "status", "complete")
                         ELSE Put(results, ArtifactKey[i], r)]

----------------------------------------------------------------------------
(* One stage call on any model response *)

\* the restriction of a mapping to some of its keys
Only(v, ks) == JObject([k \in ks \cap DOMAIN v.obj |-> v.obj[k]])

\* JSON values the model may write when asked for stage i's structure
JsonValues(i) ==
    {JArray, JScalar, JObject(EmptyObj)} \cup
    CASE i = 1 -> {FullExtraction, Only(FullExtraction, {"company_info", "metrics"}),
                   JObject([FullExtraction.obj EXCEPT !.company_info = "scalar"])}
      [] i = 2 -> {FullBenchmark, Only(FullBenchmark, {"benchmark_score"})}
      [] i = 3 -> {Only(JObject(Put(FullRisk(flags).obj, "notes", "model note")), ks) :
                     flags \in {<<Flag("CRITICAL"), Flag("LOW")>>},
                     ks \in SUBSET {"red_flags", "risk_score", "overall_assessment"}}
                  \cup {JObject([risk_score |-> 80, notes |-> "model note"])}
                  \cup {JObject([red_flags |-> NotAList]),
                        JObject([red_flags |-> NotAList, risk_score |-> 80])}
      [] i = 4 -> {FullMarket, Only(FullMarket, {"credibility_score"})}
      [] i = 5 -> {FullGrowth, Only(FullGrowth, {"overall_growth_score"})}
      [] i = 6 -> {FullRecommendation(d) : d \in {"INVEST", "PASS"}}
                  \cup {Only(FullRecommendation("INVEST"), ks) :
                          ks \in {{"decision", "confidence"}, {"decision", "key_concerns"},
                                  {"confidence", "key_concerns"}}}
                  \cup {JObject([FullRecommendation("INVEST").obj
                                    EXCEPT !.key_concerns = NotAList])}

\* n paragraphs of commentary
Commentary(n) == [k \in 1..n |-> Prose]

\* prose answers of the risk stage, line by line: one to seven lines with a
\* keyword, some with keywords of several severities, some lines without
RiskProse ==
    {<<{"LOW"}>>,
     <<{"HIGH", "LOW"}, NoKeyword, {"CRITICAL"}>>,
     <<{"MEDIUM"}, {"LOW", "MEDIUM"}, NoKeyword, {"HIGH"}>>,
     <<NoKeyword, {"LOW"}, {"HIGH", "MEDIUM"}, {"CRITICAL", "LOW"}, {"MEDIUM"}>>,
     <<{"LOW"}, {"LOW"}, NoKeyword, {"MEDIUM", "HIGH"}, {"CRITICAL"}, {"HIGH"}>>,
     <<{"LOW"}, {"CRITICAL", "HIGH"}, NoKeyword, {"MEDIUM"}, {"HIGH"}, {"LOW"},
       {"MEDIUM", "LOW"}, {"CRITICAL"}>>}

\* what stands where the JSON is asked for: nothing, one literal, two
\* literals one after the other, or prose
Bodies(i) ==
    {<<>>, <<Prose>>} \cup {<<Lit(v)>> : v \in JsonValues(i)}
    \cup {<<Lit(v), Lit(v)>> : v \in JsonValues(i)}
    \cup (IF i = 3 THEN {<<ProseLines(ls)>> : ls \in RiskProse} ELSE {})

\* commentary, an opening fence, the body, a closing fence, commentary:
\* each part present or not
Texts(i) ==
    {Commentary(lead) \o open \o body \o close \o Commentary(trail) :
        lead \in 0..MaxCommentary, open \in {<<>>, <<FenceJson>>, <<Fence>>},
        body \in Bodies(i), close \in {<<>>, <<Fence>>}, trail \in 0..MaxCommentary}

ModelOutcomes(i) ==
    {Returned(text) : text \in Texts(i)}
    \cup {InvokeRaised(c) : c \in ExceptionClasses}

NotCalled == [kind |-> "none", obj |-> EmptyObj]

\* the upstream artifacts a stage may be handed
ExtractionArtifacts ==
    {FullExtraction, Extraction_get_default_structure, JArray,
     JObject([FullExtraction.obj EXCEPT !.team = "scalar"])}
RiskArtifacts ==
    {Risk_get_default_structure, FullRisk(<<Flag("CRITICAL"), Flag("HIGH"), Flag("CRITICAL")>>),
     FullRisk(<<Flag("HIGH")>>), FullRisk(<<BareFlag>>)}

StageCall(i, model, e, b, r, m, g) ==
    [stage |-> i, model |-> model, extracted_data |-> e, benchmark_data |-> b,
     risk_analysis |-> r, market_research |-> m, growth_assessment |-> g]

StageCalls ==
    {StageCall(1, model, NotCalled, NotCalled, NotCalled, NotCalled, NotCalled) :
        model \in ModelOutcomes(1)}
    \cup UNION {{StageCall(i, model, e, NotCalled, NotCalled, NotCalled, NotCalled) :
                    model \in ModelOutcomes(i), e \in ExtractionArtifacts} : i \in 2..4}
    \cup {StageCall(5, model, FullExtraction, FullBenchmark, NotCalled, NotCalled, NotCalled) :
        model \in ModelOutcomes(5)}
    \cup {StageCall(6, model, FullExtraction, FullBenchmark, r, FullMarket, FullGrowth) :
        model \in ModelOutcomes(6), r \in RiskArtifacts}


NoCall == StageCall(0, Returned(<<>>), NotCalled, NotCalled, NotCalled, NotCalled, NotCalled)

----------------------------------------------------------------------------
(* backend/services/rag_system.py *)

DocTypes == {"pitch_deck", "transcript", "email", "update"}

\* the tag of a doc_type in the record ids
IdTag(doc_type) ==
    CASE doc_type = "pitch_deck" -> "pitch"
      [] doc_type = "transcript" -> "transcript"
      [] doc_type = "email" -> "email"
      [] doc_type = "update" -> "update"

\* lines 101-109: the record of chunk i of the pitch deck
PitchRecord(startup_id, filename, i, chunk) ==
    [id |-> startup_id \o "_pitch_" \o ToString(i), document |-> chunk,
     metadata |-> [startup_id |-> startup_id, doc_type |-> "pitch_deck",
                   chunk_index |-> i, filename |-> filename]]

\* lines 112-148: the record of chunk i of document doc_idx of a list
DocRecord(startup_id, doc_type, doc_idx, filename, i, chunk) ==
    [id |-> startup_id \o "_" \o IdTag(doc_type) \o "_" \o ToString(doc_idx)
               \o "_" \o ToString(i),
     document |-> chunk,
     metadata |-> [startup_id |-> startup_id, doc_type |-> doc_type,
                   doc_index |-> doc_idx, chunk_index |-> i, filename |-> filename]]

\* the two nested enumerate loops over one list, from document k on
RECURSIVE DocsRecords(_, _, _, _)
DocsRecords(startup_id, doc_type, docs, k) ==
    IF k > Len(docs) THEN <<>>
    ELSE [i \in 1..Len(docs[k].chunks) |->
             DocRecord(startup_id, doc_type, k - 1, docs[k].filename, i - 1,
                       docs[k].chunks[i])]
         \o DocsRecords(startup_id, doc_type, docs, k + 1)

\* an add_documents without the loop over the updates
BuildRecords_NoUpdates(extracted_data, startup_id) ==
    [i \in 1..Len(extracted_data.pitch_deck.chunks) |->
        PitchRecord(startup_id, extracted_data.pitch_deck.filename, i - 1,
                    extracted_data.pitch_deck.chunks[i])]
    \o DocsRecords(startup_id, "transcript", extracted_data.transcripts, 1)
    \o DocsRecords(startup_id, "email", extracted_data.emails, 1)

\* lines 95-148: all_chunks, metadatas and ids, one record per position
BuildRecords(extracted_data, startup_id) ==
    [i \in 1..Len(extracted_data.pitch_deck.chunks) |->
        PitchRecord(startup_id, extracted_data.pitch_deck.filename, i - 1,
                    extracted_data.pitch_deck.chunks[i])]
    \o DocsRecords(startup_id, "transcript", extracted_data.transcripts, 1)
    \o DocsRecords(startup_id, "email", extracted_data.emails, 1)
    \o DocsRecords(startup_id, "update", extracted_data.updates, 1)

Ids(records) == {records[i].id : i \in DOMAIN records}

\* an add that appends every record, whether or not its id is present
collection_add_NoIdTest(records, new) == records \o new

\* Collection.add of the vector store: a record whose id is already in the
\* collection is skipped, the stored one stays
collection_add(records, new) ==
    records \o SelectSeq(new, LAMBDA r : r.id \notin Ids(records))

\* what the embedding service and the vector store do during one call
Backends == {"ok", "embedding_error", "index_error"}

NoQuery ==
    [op |-> "", startup_id |-> "", doc_type |-> "", n_results |-> 0, backend |-> "",
     raised |-> FALSE, context |-> <<>>, added |-> 0]

Outcome(op, startup_id, doc_type, n_results, backend, raised, context, added) ==
    [op |-> op, startup_id |-> startup_id, doc_type |-> doc_type,
     n_results |-> n_results, backend |-> backend, raised |-> raised,
     context |-> context, added |-> added]

\* lines 87-166; nothing in add_documents catches what get_embeddings or
\* collection.add raise
add_documents(extracted_data, startup_id, backend) ==
    LET new == BuildRecords(extracted_data, startup_id)
    IN /\ Len(collection_add(collection, new)) <= MaxRecords
       /\ IF new = <<>>
          THEN /\ retrieved' = Outcome("add_documents", startup_id, "", 0, backend,
                                       FALSE, <<>>, 0)
               /\ UNCHANGED collection
          ELSE IF backend # "ok"
          THEN /\ retrieved' = Outcome("add_documents", startup_id, "", 0, backend,
                                       TRUE, <<>>, 0)
               /\ UNCHANGED collection
          ELSE /\ collection' = collection_add(collection, new)
               /\ retrieved' = Outcome("add_documents", startup_id, "", 0, backend,
                                       FALSE, <<>>, Len(new))
       /\ UNCHANGED <<analysis_storage, tasks, response, call, artifact, chunked>>


\* a filter that lets every record through
where_query_NoFilter(startup_id, r) == TRUE

\* line 188: where = {"startup_id": startup_id}
where_query(startup_id, r) == r.metadata.startup_id = startup_id

\* lines 223-228: where = {"$and": [{"startup_id": ..}, {"doc_type": ..}]}
where_query_by_doc_type(startup_id, doc_type, r) ==
    r.metadata.startup_id = startup_id /\ r.metadata.doc_type = doc_type

\* Collection.query of the vector store: the documents of the n_results
\* records nearest to the query embedding among those the filter lets
\* through (all of them when fewer match); which ones are nearest, and in
\* which order, is the embedding's affair, so every choice is possible.
\* where[i] tells whether the filter lets record i through.
collection_query(records, n_results, where) ==
    LET M == {i \in DOMAIN records : where[i]}
        K == IF Cardinality(M) < n_results THEN Cardinality(M) ELSE n_results
    IN {[j \in 1..K |-> records[f[j]].document] :
           f \in {g \in [1..K -> M] : \A a, b \in 1..K : a # b => g[a] # g[b]}}

\* a try block whose except clause re-raises
query_result_Reraises(backend, documents) ==
    [raised |-> backend # "ok", context |-> IF backend = "ok" THEN documents ELSE <<>>]

\* lines 180-200 and 215-240: the try block around get_embeddings and
\* collection.query; the context is kept as the sequence of the documents
\* joined, the empty sequence standing for ""
query_result(backend, documents) ==
    [raised |-> FALSE, context |-> IF backend = "ok" THEN documents ELSE <<>>]

\* lines 168-200
query(startup_id, n_results, backend) ==
    /\ \E documents \in collection_query(collection, n_results,
              [i \in DOMAIN collection |-> where_query(startup_id, collection[i])]) :
          LET res == query_result(backend, documents)
          IN retrieved' = Outcome("query", startup_id, "", n_results, backend,
                                  res.raised, res.context, 0)
    /\ UNCHANGED <<analysis_storage, tasks, response, call, artifact, collection, chunked>>

\* lines 202-240
query_by_doc_type(startup_id, doc_type, n_results, backend) ==
    /\ \E documents \in collection_query(collection, n_results,
              [i \in DOMAIN collection |->
                  where_query_by_doc_type(startup_id, doc_type, collection[i])]) :
          LET res == query_result(backend, documents)
          IN retrieved' = Outcome("query_by_doc_type", startup_id, doc_type, n_results,
                                  backend, res.raised, res.context, 0)
    /\ UNCHANGED <<analysis_storage, tasks, response, call, artifact, collection, chunked>>

\* what DocumentProcessor.process_uploaded_files hands to add_documents
Upload(pitch, transcripts, emails, updates) ==
    [pitch_deck |-> [chunks |-> pitch, filename |-> "deck.pdf"],
     transcripts |-> [i \in DOMAIN transcripts |->
                         [chunks |-> transcripts[i], filename |-> "call.txt"]],
     emails |-> [i \in DOMAIN emails |-> [chunks |-> emails[i], filename |-> "mail.txt"]],
     updates |-> [i \in DOMAIN updates |-> [chunks |-> updates[i], filename |-> "news.txt"]]]

Uploads ==
    {Upload(<<>>, <<>>, <<>>, <<>>),
     Upload(<<"t1", "t2">>, <<>>, <<>>, <<>>),
     Upload(<<"t2">>, <<<<"t1">>>>, <<>>, <<>>),
     Upload(<<"t3">>, <<>>, <<<<"t1">>>>, <<<<"t2">>>>)}

----------------------------------------------------------------------------
(* backend/services/document_processor.py *)

\* DocumentProcessor.__init__: the splitter's configuration
chunk_size == 1000
chunk_overlap == 200

\* A text is a sequence of characters.
Whitespace == {" ", "\n"}
HasWhitespace(text) == \E i \in DOMAIN text : text[i] \in Whitespace

\* str.strip()
strip(text) ==
    LET ink == {i \in DOMAIN text : text[i] \notin Whitespace}
    IN IF ink = {} THEN <<>> ELSE SubSeq(text, MinOf(ink), MaxOf(ink))

\* The splitter on a text longer than chunk_size that holds none of its
\* separators but the empty one: the text is cut character by character,
\* a chunk is closed when the next character would make it longer than
\* chunk_size, and the last chunk_overlap characters open the next chunk.
CharWindows(text) ==
    LET stride == chunk_size - chunk_overlap
        count == (Len(text) - chunk_overlap + stride - 1) \div stride
    IN [k \in 1..count |->
           SubSeq(text, (k - 1) * stride + 1, Min(Len(text), (k - 1) * stride + chunk_size))]

\* RecursiveCharacterTextSplitter.split_text as configured, on the texts
\* Texts below draws: a text of at most chunk_size characters is split at
\* its separators and merged back into one chunk, which is stripped of the
\* whitespace around it and dropped when nothing is left; a longer text
\* without whitespace is cut by CharWindows.
split_text(text) ==
    CASE Len(text) <= chunk_size ->
            IF strip(text) = <<>> THEN <<>> ELSE <<strip(text)>>
      [] Len(text) > chunk_size /\ ~HasWhitespace(text) -> CharWindows(text)

NotChunked == [text |-> <<>>, chunks |-> <<>>, done |-> FALSE]

\* lines 51-54
chunk_documents ==
    /\ ~chunked.done
    /\ chunked' = [chunked EXCEPT !.chunks = split_text(chunked.text), !.done = TRUE]
    /\ UNCHANGED <<analysis_storage, tasks, response, call, artifact, collection, retrieved>>

\* the texts of the loaded documents: up to MaxRuns runs of one character
Run(c, n) == [i \in 1..n |-> c]
Runs == {Run(c, n) : c \in {"a", "b", " ", "\n"}, n \in {1, 200, 801, 1000}}

RECURSIVE RunTexts(_)
RunTexts(n) == IF n = 0 THEN {<<>>} ELSE RunTexts(n - 1) \cup {t \o r : t \in RunTexts(n - 1), r \in Runs}

DocumentTexts ==
    {t \in RunTexts(MaxRuns) : Len(t) <= chunk_size \/ ~HasWhitespace(t)}

----------------------------------------------------------------------------
(* routes/analysis.py *)

Entities == {"e1", "e2"}

PENDING == "pending"
PROCESSING == "processing"
COMPLETED == "completed"
FAILED == "failed"

NoResponse == [op |-> "", startup_id |-> "", code |-> 0, body |-> EmptyObj]
Response(op, e, code, body) == [op |-> op, startup_id |-> e, code |-> code, body |-> body]

\* an assignment that rebinds the whole store to the one entry
Store_DropsOthers(storage, e, entry) ==
    [x \in {e} |-> entry]

\* analysis_storage[startup_id] = entry
Store(storage, e, entry) ==
    [x \in (DOMAIN storage) \cup {e} |-> IF x = e THEN entry ELSE storage[x]]

\* a background task: pc 0 is queued, 1..6 about to call that stage,
\* 7 analyze_startup has returned (or raised exc)
\* invoke_errors records the stages whose model.invoke raised, and with what
NewTask(e) ==
    [startup_id |-> e, pc |-> 0, results |-> InitialResults(e), exc |-> "",
     invoke_errors |-> {}, trace |-> <<>>]

Alive == BagToSet(tasks)
Replace(t, u) == (tasks (-) SetToBag({t})) (+) SetToBag({u})

\* a start_analysis without the "already analyzing" test of lines 75-81
start_analysis_NoConflictTest(e) ==
    /\ BagCardinality(tasks) < MaxTasks
    /\ analysis_storage' = Store(analysis_storage, e,
             [status |-> PENDING, progress |-> 0, message |-> "Analysis queued"])
    /\ tasks' = tasks (+) SetToBag({NewTask(e)})
    /\ response' = Response("start", e, 200,
             [startup_id |-> e, status |-> PENDING, progress |-> 0,
              message |-> "Analysis started"])
    /\ UNCHANGED <<call, artifact, collection, retrieved, chunked>>

\* lines 61-98; the handler runs to completion on the event loop
start_analysis(e) ==
    /\ IF e \in DOMAIN analysis_storage /\ analysis_storage[e].status = PROCESSING
       THEN /\ response' = Response("start", e, 409,
                     [detail |-> "Analysis already in progress for this startup"])
            /\ UNCHANGED <<analysis_storage, tasks>>
       ELSE /\ BagCardinality(tasks) < MaxTasks
            /\ analysis_storage' = Store(analysis_storage, e,
                     [status |-> PENDING, progress |-> 0, message |-> "Analysis queued"])
            /\ tasks' = tasks (+) SetToBag({NewTask(e)})
            /\ response' = Response("start", e, 200,
                     [startup_id |-> e, status |-> PENDING, progress |-> 0,
                      message |-> "Analysis started"])
    /\ UNCHANGED <<call, artifact, collection, retrieved, chunked>>

\* lines 32-38: the task starts on a worker thread
BackgroundBegin(t) ==
    /\ t.pc = 0
    /\ analysis_storage' = Store(analysis_storage, t.startup_id,
            [status |-> PROCESSING, progress |-> 10, message |-> "Starting analysis..."])
    /\ tasks' = Replace(t, [t EXCEPT !.pc = 1])
    /\ UNCHANGED <<response, call, artifact, collection, retrieved, chunked>>

\* line 41, one stage of analyze_startup at a time
BackgroundStage(t) ==
    /\ t.pc \in 1..6
    /\ \E model \in SampleOutcomes(t.pc) :
          LET after == AnalyzeStep(t.pc, t.results, model)
          IN tasks' = Replace(t, [t EXCEPT !.pc = after.pc, !.results = after.results,
                                           !.exc = after.exc,
                                           !.invoke_errors =
                                               IF InvokeReached(t.pc, t.results) /\ model.exc # ""
                                               THEN @ \cup {<<t.pc, model.exc>>} ELSE @,
                                           !.trace = Append(@, [stage |-> t.pc,
                                                       passed |-> StageInputs(t.pc, t.results)])])
    /\ UNCHANGED <<analysis_storage, response, call, artifact, collection, retrieved, chunked>>

\* a task that ends without writing a new status
FinalEntry_StaysProcessing(t) ==
    [status |-> PROCESSING, progress |-> 10, message |-> "Starting analysis..."]

\* lines 43-58: the entry written when analyze_startup has returned or raised
FinalEntry(t) ==
    IF t.exc = ""
    THEN [status |-> COMPLETED, progress |-> 100,
          message |-> "Analysis completed successfully", results |-> t.results]
    ELSE [status |-> FAILED, progress |-> 0,
          message |-> "Analysis failed: " \o t.exc, error |-> t.exc]

BackgroundFinish(t) ==
    /\ t.pc = 7
    /\ analysis_storage' = Store(analysis_storage, t.startup_id, FinalEntry(t))
    /\ tasks' = tasks (-) SetToBag({t})
    /\ UNCHANGED <<response, call, artifact, collection, retrieved, chunked>>

\* lines 101-121
get_analysis_status(e) ==
    /\ response' =
          IF e \notin DOMAIN analysis_storage
          THEN Response("status", e, 404, [detail |-> "No analysis found for this startup"])
          ELSE LET data == analysis_storage[e]
               IN Response("status", e, 200,
                           [startup_id |-> e, status |-> data.status,
                            progress |-> data.progress, message |-> data.message])
    /\ UNCHANGED <<analysis_storage, tasks, call, artifact, collection, retrieved, chunked>>

\* a get_analysis_results without the status test of lines 144-148
get_analysis_results_NoStatusTest(e) ==
    /\ response' =
          IF e \notin DOMAIN analysis_storage
          THEN Response("results", e, 404, [detail |-> "No analysis found for this startup"])
          ELSE LET data == analysis_storage[e]
               IN Response("results", e, 200, Get(data, "results", EmptyObj))
    /\ UNCHANGED <<analysis_storage, tasks, call, artifact, collection, retrieved, chunked>>

\* lines 124-151
get_analysis_results(e) ==
    /\ response' =
          IF e \notin DOMAIN analysis_storage
          THEN Response("results", e, 404, [detail |-> "No analysis found for this startup"])
          ELSE LET data == analysis_storage[e]
               IN IF data.status # COMPLETED
                  THEN Response("results", e, 400,
                                [detail |-> "Analysis not completed. Current status: "
                                            \o data.status])
                  ELSE Response("results", e, 200, data.results)
    /\ UNCHANGED <<analysis_storage, tasks, call, artifact, collection, retrieved, chunked>>

\* lines 154-166
delete_analysis(e) ==
    /\ IF e \in DOMAIN analysis_storage
       THEN /\ analysis_storage' = [x \in (DOMAIN analysis_storage) \ {e} |-> analysis_storage[x]]
            /\ response' = Response("delete", e, 200,
                                    [message |-> "Analysis deleted for startup " \o e])
       ELSE /\ response' = Response("delete", e, 404, [detail |-> "Analysis not found"])
            /\ UNCHANGED analysis_storage
    /\ UNCHANGED <<tasks, call, artifact, collection, retrieved, chunked>>

----------------------------------------------------------------------------
(* The service: requests and background tasks in any interleaving *)

Init ==
    /\ analysis_storage = EmptyObj
    /\ tasks = EmptyBag
    /\ response = NoResponse
    /\ call = NoCall
    /\ artifact = NotCalled
    /\ collection = <<>>
    /\ retrieved = NoQuery
    /\ chunked = NotChunked

Next ==
    \/ \E e \in Entities : start_analysis(e)
    \/ \E t \in Alive : BackgroundBegin(t)
    \/ \E t \in Alive : BackgroundStage(t)
    \/ \E t \in Alive : BackgroundFinish(t)
    \/ \E e \in Entities : get_analysis_status(e)
    \/ \E e \in Entities : get_analysis_results(e)
    \/ \E e \in Entities : delete_analysis(e)

Spec == Init /\ [][Next]_vars

\* the steps of the background tasks of entity e
BackgroundOf(e) ==
    \E t \in Alive :
        t.startup_id = e /\ (BackgroundBegin(t) \/ BackgroundStage(t) \/ BackgroundFinish(t))

\* the service when the worker threads get to run: FastAPI runs every task
\* it was handed, and every retrieval, search and model call returns or raises
\* the requests that write analysis_storage, and the background tasks
NextLive ==
    \/ \E e \in Entities : start_analysis(e)
    \/ \E t \in Alive : BackgroundBegin(t)
    \/ \E t \in Alive : BackgroundStage(t)
    \/ \E t \in Alive : BackgroundFinish(t)
    \/ \E e \in Entities : delete_analysis(e)

SpecLive == Init /\ [][NextLive]_vars /\ \A e \in Entities : WF_vars(BackgroundOf(e))

----------------------------------------------------------------------------
(* The stages on their own: one call, on inputs drawn by the initial state *)

Extract ==
    /\ call.stage = 1 /\ artifact = NotCalled
    /\ artifact' = extract(call.model)
    /\ UNCHANGED <<analysis_storage, tasks, response, call, collection, retrieved, chunked>>

Benchmark ==
    /\ call.stage = 2 /\ artifact = NotCalled
    /\ artifact' = benchmark(call.extracted_data, call.model)
    /\ UNCHANGED <<analysis_storage, tasks, response, call, collection, retrieved, chunked>>

DetectRisks ==
    /\ call.stage = 3 /\ artifact = NotCalled
    /\ artifact' = detect_risks(call.extracted_data, call.model)
    /\ UNCHANGED <<analysis_storage, tasks, response, call, collection, retrieved, chunked>>

Research ==
    /\ call.stage = 4 /\ artifact = NotCalled
    /\ artifact' = research(call.extracted_data, call.model)
    /\ UNCHANGED <<analysis_storage, tasks, response, call, collection, retrieved, chunked>>

AssessGrowth ==
    /\ call.stage = 5 /\ artifact = NotCalled
    /\ artifact' = assess_growth(call.extracted_data, call.benchmark_data, call.model)
    /\ UNCHANGED <<analysis_storage, tasks, response, call, collection, retrieved, chunked>>

GenerateRecommendation ==
    /\ call.stage = 6 /\ artifact = NotCalled
    /\ artifact' = generate_recommendation(call.extracted_data, call.risk_analysis,
                                           call.market_research, call.benchmark_data,
                                           call.growth_assessment, call.model)
    /\ UNCHANGED <<analysis_storage, tasks, response, call, collection, retrieved, chunked>>

InitStage ==
    /\ analysis_storage = EmptyObj
    /\ tasks = EmptyBag
    /\ response = NoResponse
    /\ call \in StageCalls
    /\ artifact = NotCalled
    /\ collection = <<>>
    /\ retrieved = NoQuery
    /\ chunked = NotChunked

NextStage ==
    \/ Extract
    \/ Benchmark
    \/ DetectRisks
    \/ Research
    \/ AssessGrowth
    \/ GenerateRecommendation

SpecStage == InitStage /\ [][NextStage]_vars

----------------------------------------------------------------------------
(* The retrieval service on its own *)

NextRag ==
    \/ \E d \in Uploads, e \in Entities, b \in Backends : add_documents(d, e, b)
    \/ \E e \in Entities, n \in 1..MaxResults, b \in Backends : query(e, n, b)
    \/ \E e \in Entities, dt \in DocTypes, n \in 1..MaxResults, b \in Backends :
          query_by_doc_type(e, dt, n, b)

SpecRag == Init /\ [][NextRag]_vars

----------------------------------------------------------------------------
(* The chunking of one document text *)

InitChunk ==
    /\ analysis_storage = EmptyObj
    /\ tasks = EmptyBag
    /\ response = NoResponse
    /\ call = NoCall
    /\ artifact = NotCalled
    /\ collection = <<>>
    /\ retrieved = NoQuery
    /\ chunked \in {[NotChunked EXCEPT !.text = t] : t \in DocumentTexts}

NextChunk == chunk_documents

SpecChunk == InitChunk /\ [][NextChunk]_vars

----------------------------------------------------------------------------
(* Claims about the router and the orchestrator, checked under Spec *)

Status(storage, e) == IF e \in DOMAIN storage THEN storage[e].status ELSE "none"

\* the background tasks of entity e, queued or executing
RunsOf(e) ==
    LET S == {t \in Alive : t.startup_id = e}
    IN BagCardinality([t \in S |-> CopiesIn(t, tasks)])

\* C1: in every reachable state at most one non-terminal run (a queued or
\* executing run_analysis_background task) exists per entity id.
C1_AtMostOneRunPerEntity == \A e \in Entities : RunsOf(e) <= 1

\* what C2 says of a start_analysis(e) step
C2_Post(e) ==
    IF Status(analysis_storage, e) = PROCESSING
    THEN /\ response'.code = 409
         /\ analysis_storage' = analysis_storage
         /\ tasks' = tasks
    ELSE Status(analysis_storage, e) \in {COMPLETED, "none"} =>
         /\ Status(analysis_storage', e) = PENDING
         /\ analysis_storage'[e].progress = 0
         /\ response'.code = 200
         /\ response'.body.status = PENDING
         /\ RunsOf(e)' = RunsOf(e) + 1
         /\ CopiesIn(NewTask(e), tasks') = CopiesIn(NewTask(e), tasks) + 1

\* C2: start_analysis on a processing entity answers 409 and changes nothing;
\* on a completed or unknown entity it stores pending with progress 0, answers
\* pending and queues the run; the entry is processing once the task starts.
C2_StartContract ==
    [][/\ \A e \in Entities : start_analysis(e) => C2_Post(e)
       /\ \A t \in Alive : BackgroundBegin(t) =>
             Status(analysis_storage', t.startup_id) = PROCESSING]_vars

\* a second start for an entity whose run had begun was rejected
C2_Witness ==
    /\ response.op = "start" /\ response.code = 409
    /\ Status(analysis_storage, response.startup_id) = PROCESSING
    /\ RunsOf(response.startup_id) = 1

\* C3: the stored status moves only pending -> processing -> completed or
\* failed; a completed or failed entry is not written back to processing
\* unless a start_analysis was accepted (which stores pending) in between.
C3_StatusLifecycle ==
    [][\A e \in Entities :
          LET old == Status(analysis_storage, e)
              new == Status(analysis_storage', e)
          IN \/ new = old
             \/ old = "none"
             \/ new \in {PENDING, "none"}
             \/ <<old, new>> \in {<<PENDING, PROCESSING>>, <<PROCESSING, COMPLETED>>,
                                  <<PROCESSING, FAILED>>}]_vars

\* the run of task t ended because a stage call raised
StageRaised(t) == t.pc = 7 /\ "error" \in DOMAIN t.results

\* C4: when a stage call raised, the run's entry ends failed and its message
\* is the raised error's message.
C4_RaisedRunEndsFailed ==
    [][\A t \in Alive : (BackgroundFinish(t) /\ StageRaised(t)) =>
          /\ Status(analysis_storage', t.startup_id) = FAILED
          /\ analysis_storage'[t.startup_id].message
                \in {t.results.error, "Analysis failed: " \o t.results.error}]_vars

\* the records a stage's raise has left: in a task, in the storage
FailedRecords ==
    {t.results : t \in {x \in Alive : StageRaised(x)}}
    \cup {analysis_storage[e].results :
            e \in {x \in DOMAIN analysis_storage :
                      /\ "results" \in DOMAIN analysis_storage[x]
                      /\ analysis_storage[x].results.status = "failed"}}

\* C5 as stated: when a stage raised, no artifact of the stages that had
\* completed is retained, in the record analyze_startup returns or in the
\* entity's analysis_storage entry.
C5_NoPartialArtifacts == \A r \in FailedRecords : DOMAIN r \cap Artifacts = {}

\* C5 as amended: when a stage raised, the record analyze_startup returns keeps
\* the artifacts of the stages that completed before it (a non-empty proper
\* prefix of the stage order) next to status failed and the error, and the
\* entity's analysis_storage entry holds such a record as its results.
C5_PartialArtifactsRetained ==
    \A r \in FailedRecords :
        /\ \E k \in 1..5 : DOMAIN r \cap Artifacts = {ArtifactKey[i] : i \in 1..k}
        /\ r.status = "failed" /\ "error" \in DOMAIN r

\* a run whose last stage raised has been stored, five artifacts with it
C5_Witness ==
    \E e \in DOMAIN analysis_storage :
        /\ "results" \in DOMAIN analysis_storage[e]
        /\ analysis_storage[e].results.status = "failed"
        /\ DOMAIN analysis_storage[e].results \cap Artifacts = Artifacts \ {"recommendation"}

\* C6: a completed entry's results contain all six stage artifacts.
C6_CompletedIsComplete ==
    \A e \in DOMAIN analysis_storage :
        analysis_storage[e].status = COMPLETED =>
            Artifacts \subseteq DOMAIN analysis_storage[e].results

----------------------------------------------------------------------------
(* Claims about one stage call, checked under SpecStage *)

\* the top-level keys of the structure each stage's prompt asks for
DeclaredSchema(i) ==
    CASE i = 1 -> {"company_info", "business", "metrics", "team", "funding", "traction"}
      [] i = 2 -> {"sector_benchmarks", "comparisons", "competitive_position",
                   "benchmark_score", "summary"}
      [] i = 3 -> {"red_flags", "risk_score", "overall_assessment"}
      [] i = 4 -> {"validations", "market_insights", "credibility_score"}
      [] i = 5 -> {"growth_scores", "overall_growth_score", "growth_trajectory",
                   "time_to_scale", "exit_potential", "growth_plan_quality",
                   "recommendation_summary"}
      [] i = 6 -> {"decision", "confidence", "investment_thesis", "key_strengths",
                   "key_concerns", "suggested_valuation", "suggested_investment",
                   "follow_up_questions", "deal_score", "next_steps"}

\* the call got as far as model.invoke: the reads before the try did not raise
ModelInvoked(c) ==
    CASE c.stage = 2 -> ~BenchmarkInputsRaise(c.extracted_data)
      [] c.stage = 4 -> ~ResearchInputsRaise(c.extracted_data)
      [] c.stage = 6 -> ~RecommendationInputsRaise(c.risk_analysis, c.benchmark_data,
                                                   c.growth_assessment)
      [] OTHER -> TRUE

\* the stage has returned from a call in which the model answered with a text
Answered == artifact # NotCalled /\ ModelInvoked(call) /\ call.model.exc = ""

\* the response text as the stage hands it to json.loads
Cleaned(c) ==
    IF c.stage = 3 THEN clean_json_response(c.model.text) ELSE StripFences(c.model.text)

SchemaComplete == IsDict(artifact) /\ DeclaredSchema(call.stage) \subseteq Keys(artifact)

\* C7: for every stage and every model response, also valid JSON that omits
\* keys or is not an object, the returned artifact is a mapping with every
\* top-level key of the stage's declared schema.
C7_AlwaysSchemaComplete == Answered => SchemaComplete

\* C8: for every stage, when the model response is not valid JSON after
\* cleanup, the returned artifact has every top-level key of the schema.
C8_UnparseableGivesSchemaComplete ==
    (Answered /\ ~Parses(Cleaned(call))) => SchemaComplete

\* extraction answered fenced JSON followed by commentary and fell back
C8_Witness ==
    /\ call.stage = 1
    /\ call.model = Returned(<<FenceJson, Lit(FullExtraction), Fence, Prose>>)
    /\ artifact = Extraction_get_default_structure

\* C9: the model-invocation-and-parse step never raises, whatever the model
\* answers and whatever model.invoke throws.
C9_ModelStepNeverRaises ==
    (artifact # NotCalled /\ ModelInvoked(call)) => ~IsRaised(artifact)

\* the risk stage parsed a mapping that lacks a required key
RiskParsedPartial ==
    /\ call.stage = 3 /\ Answered
    /\ Parses(Cleaned(call)) /\ IsDict(loads(Cleaned(call)))
    /\ ~(DeclaredSchema(3) \subseteq Keys(loads(Cleaned(call))))

RiskUnparseableNoKeyword ==
    /\ call.stage = 3 /\ Answered
    /\ ~Parses(Cleaned(call))
    /\ \A i \in DOMAIN LinesOf(Cleaned(call)) : LinesOf(Cleaned(call))[i] = NoKeyword

\* C11: in the risk stage, when the response fails JSON parsing and no line
\* of it contains a severity keyword, the returned artifact is the fallback
\* artifact verbatim (_get_default_structure, with its error note) and not a
\* manual-review artifact.
C11_NoKeywordGivesDefault ==
    RiskUnparseableNoKeyword => artifact = Risk_get_default_structure

\* the recommendation stage parsed a mapping from the model's text
RecommendationParsed ==
    /\ call.stage = 6 /\ Answered
    /\ Parses(Cleaned(call)) /\ IsDict(loads(Cleaned(call)))

\* line 127: the decision the model gave
ModelDecision == Get(loads(Cleaned(call)).obj, "decision", "MAYBE")

\* C12: whenever the parsed recommendation has decision INVEST and red_flags
\* holds at least one CRITICAL entry, the returned decision is PASS and
\* key_concerns[0] is the synthetic entry stating the number of CRITICAL flags.
C12_CriticalInvestForcedToPass ==
    (/\ RecommendationParsed
     /\ ModelDecision = "INVEST"
     /\ Len(critical_flags(call.risk_analysis)) > 0)
    => /\ IsDict(artifact)
       /\ artifact.obj.decision = "PASS"
       /\ artifact.obj.key_concerns.list
       /\ Len(artifact.obj.key_concerns.items) > 0
       /\ artifact.obj.key_concerns.items[1] =
             CriticalConcern(Len(critical_flags(call.risk_analysis)))

\* C13: whenever the response parses as a JSON object and either no red flag
\* is CRITICAL or the model's decision is not INVEST, the returned decision
\* equals the model's decision.
C13_DecisionPassedThrough ==
    (/\ RecommendationParsed
     /\ \/ Len(critical_flags(call.risk_analysis)) = 0
        \/ ModelDecision # "INVEST")
    => /\ IsDict(artifact)
       /\ artifact.obj.decision = ModelDecision

----------------------------------------------------------------------------
(* Further claims about the router and the orchestrator, under Spec *)

C19_Post(e) ==
    /\ response'.code = (IF e \notin DOMAIN analysis_storage THEN 404
                         ELSE IF analysis_storage[e].status = COMPLETED THEN 200
                         ELSE 400)
    /\ response'.code = 200 => response'.body = analysis_storage[e].results
    /\ analysis_storage' = analysis_storage

\* C19: get_analysis_results returns the stored results if and only if the
\* entity's status is completed, answers 404 for an unknown entity and 400
\* for any other status; neither it nor get_analysis_status changes
\* analysis_storage.
C19_ResultsOnlyWhenCompleted ==
    [][\A e \in Entities :
          /\ get_analysis_results(e) => C19_Post(e)
          /\ get_analysis_status(e) => analysis_storage' = analysis_storage]_vars

\* the results of a completed run, all six artifacts, were returned
C19_Witness ==
    /\ response.op = "results" /\ response.code = 200
    /\ Status(analysis_storage, response.startup_id) = COMPLETED
    /\ response.body = analysis_storage[response.startup_id].results
    /\ Artifacts \subseteq DOMAIN response.body

\* C20: within one run the progress stored for the entity never decreases:
\* only an accepted start_analysis, which stores pending, may lower it.
C20_ProgressNeverDecreases ==
    [][\A e \in Entities :
          (/\ e \in DOMAIN analysis_storage
           /\ e \in DOMAIN analysis_storage'
           /\ analysis_storage'[e].status # PENDING)
          => analysis_storage'[e].progress >= analysis_storage[e].progress]_vars

----------------------------------------------------------------------------
(* Claims about the retrieval service, checked under SpecRag *)

Queried == retrieved.op \in {"query", "query_by_doc_type"}

\* the records the filter of the last query lets through
Matched ==
    {i \in DOMAIN collection :
        IF retrieved.op = "query"
        THEN where_query(retrieved.startup_id, collection[i])
        ELSE where_query_by_doc_type(retrieved.startup_id, retrieved.doc_type,
                                     collection[i])}

\* C15: query and query_by_doc_type never raise; when the embedding call or
\* the index query fails, and when the filter matches no record, they return
\* the empty context.
C15_QueriesNeverRaise ==
    Queried =>
        /\ ~retrieved.raised
        /\ (retrieved.backend # "ok" \/ Matched = {}) => retrieved.context = <<>>

\* the embedding call failed during a query whose filter had records to return
C15_Witness ==
    /\ retrieved.op = "query" /\ retrieved.backend = "embedding_error"
    /\ Matched # {}
    /\ ~retrieved.raised /\ retrieved.context = <<>>

\* C16: after any sequence of add_documents calls, a query for startup_id X
\* returns only documents of records indexed with startup_id X (none when X
\* has no record), query_by_doc_type only those whose doc_type is the one
\* asked for, and each at most n_results of them.
C16_QueryIsolation ==
    Queried =>
        /\ Len(retrieved.context) <= retrieved.n_results
        /\ \A k \in DOMAIN retrieved.context :
              \E i \in DOMAIN collection :
                 /\ collection[i].document = retrieved.context[k]
                 /\ collection[i].metadata.startup_id = retrieved.startup_id
                 /\ retrieved.op = "query_by_doc_type" =>
                       collection[i].metadata.doc_type = retrieved.doc_type

\* with records of both entities indexed, a query for e1 with n_results 1
\* returned one of e1's two documents
C16_Witness ==
    /\ retrieved.op = "query" /\ retrieved.startup_id = "e1" /\ retrieved.n_results = 1
    /\ retrieved.backend = "ok"
    /\ Cardinality(Matched) = 2
    /\ \E i \in DOMAIN collection : collection[i].metadata.startup_id = "e2"
    /\ Len(retrieved.context) = 1

InCollection(r) == \E i \in DOMAIN collection : collection[i] = r

----------------------------------------------------------------------------
(* Claims about the chunking, checked under SpecChunk *)

\* the chunks joined in order, the first chunk_overlap characters of every
\* chunk but the first removed
RECURSIVE Rejoin(_, _)
Rejoin(chunks, k) ==
    IF k > Len(chunks) THEN <<>>
    ELSE (IF k = 1 THEN chunks[k] ELSE SubSeq(chunks[k], chunk_overlap + 1, Len(chunks[k])))
         \o Rejoin(chunks, k + 1)

\* C18: with chunk size 1000 and overlap 200, chunk_documents returns no
\* chunk for the empty text, and for any text the chunks joined in order,
\* the first 200 characters of every chunk but the first removed, are the
\* text again.
C18_ChunksRejoinToText ==
    chunked.done =>
        /\ chunked.text = <<>> => chunked.chunks = <<>>
        /\ Rejoin(chunked.chunks, 1) = chunked.text

----------------------------------------------------------------------------
(* Claims about the order of the stages and the router's frame, under Spec *)

\* the upstream artifacts each stage is declared to receive
DeclaredUpstream ==
    <<{}, {"extracted_data"}, {"extracted_data"}, {"extracted_data"},
      {"extracted_data", "benchmark_data"},
      {"extracted_data", "risk_analysis", "market_research", "benchmark_data",
       "growth_assessment"}>>

\* C21: a run calls the stages in the order extraction, benchmarking, risk,
\* market research, growth, recommendation, each one only when every earlier
\* stage has returned its artifact, and hands each stage exactly its declared
\* upstream artifacts, as the earlier stages returned them.
C21_StagesInOrderWithDeclaredInputs ==
    \A t \in Alive :
        /\ t.pc \in 0..6 => Len(t.trace) = MaxOf({0, t.pc - 1})
        /\ \A k \in 1..Len(t.trace) :
              /\ t.trace[k].stage = k
              /\ \A j \in 1..(k - 1) : ArtifactKey[j] \in DOMAIN t.results
              /\ DOMAIN t.trace[k].passed = DeclaredUpstream[k]
              /\ \A a \in DeclaredUpstream[k] : t.trace[k].passed[a] = t.results[a]

\* a run called all six stages and returned complete
C21_Witness ==
    \E t \in Alive : t.pc = 7 /\ Len(t.trace) = 6 /\ t.results.status = "complete"

\* the entry stored for entity e, or its absence
Entry(storage, e) ==
    IF e \in DOMAIN storage THEN [present |-> TRUE, entry |-> storage[e]]
    ELSE [present |-> FALSE]

\* a step of an operation performed for entity a
OperationFor(a) ==
    \/ start_analysis(a)
    \/ \E t \in Alive : t.startup_id = a /\ BackgroundBegin(t)
    \/ \E t \in Alive : t.startup_id = a /\ BackgroundStage(t)
    \/ \E t \in Alive : t.startup_id = a /\ BackgroundFinish(t)
    \/ get_analysis_status(a)
    \/ get_analysis_results(a)
    \/ delete_analysis(a)

\* C22: a step of start_analysis, of the background run, of
\* get_analysis_status, of get_analysis_results or of delete_analysis for an
\* entity leaves the stored entry of every other entity as it was, present or
\* absent, in every interleaving.
C22_OtherEntriesUnchanged ==
    [][\A a \in Entities : OperationFor(a) =>
          \A b \in Entities \ {a} :
              Entry(analysis_storage', b) = Entry(analysis_storage, b)]_vars

\* e1's entry was deleted while e2's run was stored as completed, and e2's
\* entry is still there
C22_Witness ==
    /\ response.op = "delete" /\ response.startup_id = "e1" /\ response.code = 200
    /\ "e1" \notin DOMAIN analysis_storage
    /\ "e2" \in DOMAIN analysis_storage /\ analysis_storage["e2"].status = COMPLETED

----------------------------------------------------------------------------
(* Claims about the keyword recovery of the risk stage, under SpecStage *)

\* the risk stage was answered with text that json.loads rejects
RiskUnparseable == call.stage = 3 /\ Answered /\ ~Parses(Cleaned(call))

\* the lines of the text handed to the recovery, and those with a keyword
RecoveryLines == LinesOf(Cleaned(call))
MatchingLines == {i \in DOMAIN RecoveryLines : RecoveryLines[i] # NoKeyword}

\* the k-th line with a keyword, in line order
NthMatching(k) ==
    CHOOSE i \in MatchingLines : Cardinality({j \in MatchingLines : j < i}) = k - 1

\* the first of CRITICAL, HIGH, MEDIUM, LOW with a keyword in the line
FirstOf(line) ==
    CHOOSE s \in line : \A i, j \in 1..4 :
        (SeverityOrder[i] = s /\ SeverityOrder[j] \in line) => i <= j

\* C23: when the risk response cannot be parsed, every line with a keyword
\* yields one red flag, of the first of CRITICAL, HIGH, MEDIUM, LOW that has a
\* keyword in the line, every other line yields none; red_flags are the
\* first five of these flags in line order, and the artifact carries
\* overall_assessment "Manual Review Required" and a parsing_note.
C23_RecoveredFlags ==
    RiskUnparseable =>
        /\ IsDict(artifact)
        /\ artifact.obj.red_flags.list
        /\ Len(artifact.obj.red_flags.items) = Min(5, Cardinality(MatchingLines))
        /\ \A k \in 1..Len(artifact.obj.red_flags.items) :
              artifact.obj.red_flags.items[k] = Flag(FirstOf(RecoveryLines[NthMatching(k)]))
        /\ artifact.obj.overall_assessment = "Manual Review Required"
        /\ "parsing_note" \in Keys(artifact)

\* seven lines of an unparseable response carry keywords, one of them of two
\* severities, and five flags were returned
C23_Witness ==
    /\ RiskUnparseable
    /\ Cardinality(MatchingLines) = 7
    /\ \E i \in MatchingLines : Cardinality(RecoveryLines[i]) = 2
    /\ Len(artifact.obj.red_flags.items) = 5

\* C24: the recovered risk_score is 50 when no line has a keyword, and
\* otherwise 40 plus 10 for every line with a keyword, those beyond the fifth
\* included, but at most 90; so it is one of 50, 60, 70, 80, 90.
C24_RecoveredScore ==
    RiskUnparseable =>
        LET n == Cardinality(MatchingLines)
        IN /\ n = 0 => artifact.obj.risk_score = 50
           /\ n \in 1..4 => artifact.obj.risk_score = 40 + 10 * n
           /\ n >= 5 => artifact.obj.risk_score = 90
           /\ artifact.obj.risk_score \in {50, 60, 70, 80, 90}

\* seven lines with a keyword gave the capped score
C24_Witness ==
    RiskUnparseable /\ Cardinality(MatchingLines) = 7 /\ artifact.obj.risk_score = 90

----------------------------------------------------------------------------
(* Claims about the override of the recommendation, under SpecStage *)

\* generate_recommendation returned a record
RecommendationReturned == call.stage = 6 /\ artifact # NotCalled /\ ~IsRaised(artifact)

\* red_flags of the risk artifact holds an entry of severity CRITICAL
HasCriticalFlag ==
    LET red_flags == Get(call.risk_analysis.obj, "red_flags", JList(<<>>)).items
    IN \E i \in DOMAIN red_flags : red_flags[i].severity = "CRITICAL"

\* C25: on every return path of generate_recommendation (the response parsed,
\* parsed with keys such as confidence or key_concerns missing, unparseable,
\* or model.invoke raised) the returned decision is not INVEST when red_flags
\* holds at least one CRITICAL entry.
C25_NeverInvestWithCritical ==
    (RecommendationReturned /\ HasCriticalFlag) =>
        /\ IsDict(artifact)
        /\ Get(artifact.obj, "decision", "") # "INVEST"

\* the model said INVEST without a confidence while a red flag is CRITICAL,
\* and a record was returned
C25_Witness ==
    /\ RecommendationReturned /\ HasCriticalFlag
    /\ RecommendationParsed /\ ModelDecision = "INVEST"
    /\ "confidence" \notin Keys(loads(Cleaned(call)))

\* the override of line 132 fires: the model said INVEST and a flag is CRITICAL
OverrideFires == RecommendationParsed /\ ModelDecision = "INVEST" /\ HasCriticalFlag

\* C26: when the override fires, the returned record is the model's record
\* with only decision and key_concerns changed: every other key is returned
\* as the model gave it, no key is added, and key_concerns is the model's
\* list with exactly one entry inserted in front.
C26_OverrideChangesOnlyTwoKeys ==
    OverrideFires =>
        LET data == loads(Cleaned(call)).obj
        IN /\ IsDict(artifact)
           /\ Keys(artifact) = DOMAIN data
           /\ \A k \in DOMAIN data \ {"decision", "key_concerns"} : artifact.obj[k] = data[k]
           /\ artifact.obj.key_concerns.list
           /\ Len(artifact.obj.key_concerns.items) = Len(data.key_concerns.items) + 1
           /\ Tail(artifact.obj.key_concerns.items) = data.key_concerns.items

----------------------------------------------------------------------------
(* Further claims about the orchestrator, the router and their runs, under Spec *)

\* the artifacts of the first k stages
ArtifactsUpTo(k) == {ArtifactKey[i] : i \in 1..k}

\* C27: analyze_startup never lets an exception through: it returns a record
\* with status complete and all six artifacts, or with status failed, an
\* error message and exactly the artifacts of the stages that returned before
\* the failing one, a prefix of the stage order.
C27_AlwaysReturnsARecord ==
    \A t \in Alive : t.pc = 7 =>
        /\ t.exc = ""
        /\ \/ /\ t.results.status = "complete"
              /\ "error" \notin DOMAIN t.results
              /\ DOMAIN t.results \cap Artifacts = Artifacts
           \/ /\ t.results.status = "failed"
              /\ "error" \in DOMAIN t.results
              /\ DOMAIN t.results \cap Artifacts = ArtifactsUpTo(Len(t.trace) - 1)

\* the third stage raised and the record returned is failed, with the two
\* artifacts of the stages before it
C27_Witness ==
    \E t \in Alive :
        /\ t.pc = 7 /\ Len(t.trace) = 3 /\ t.results.status = "failed"
        /\ DOMAIN t.results \cap Artifacts = {"extracted_data", "benchmark_data"}

\* start_analysis for e was accepted in this step
StartAccepted(e) == start_analysis(e) /\ response'.code = 200

\* C28: once delete_analysis has removed an entity's entry, the entity has no
\* entry until a start_analysis for it is accepted: an absent entry comes
\* back by no other step, also not by a background task of the entity that
\* was pending or processing when the entry was deleted.
C28_DeletedStaysDeleted ==
    [][\A e \in Entities :
          (e \notin DOMAIN analysis_storage /\ e \in DOMAIN analysis_storage')
              => StartAccepted(e)]_vars

\* the router has just accepted start_analysis for e
JustAccepted(e) ==
    response.op = "start" /\ response.startup_id = e /\ response.code = 200

\* C29: when the background tasks get to run, every accepted start_analysis
\* is followed by a state in which a terminal status, completed or failed,
\* is stored for that entity.
C29_AcceptedRunTerminates ==
    \A e \in Entities :
        JustAccepted(e) ~> (Status(analysis_storage, e) \in {COMPLETED, FAILED})

\* an analysis was accepted, ran and was stored as completed
C29_Witness ==
    /\ Status(analysis_storage, "e1") = COMPLETED
    /\ ~(\E t \in Alive : t.startup_id = "e1")
    /\ analysis_storage["e1"].results.status = "complete"

----------------------------------------------------------------------------
(* A further claim about the retrieval service, under SpecRag *)

\* the chunks of the documents of one list, in order
RECURSIVE ChunksOf(_)
ChunksOf(docs) ==
    IF docs = <<>> THEN <<>> ELSE Head(docs).chunks \o ChunksOf(Tail(docs))

\* every chunk of an upload: pitch deck, transcripts, emails, updates
UploadChunks(d) ==
    d.pitch_deck.chunks \o ChunksOf(d.transcripts) \o ChunksOf(d.emails) \o ChunksOf(d.updates)

\* C30: add_documents builds one id and one metadata record for every chunk
\* of the pitch deck, the transcripts, the emails and the updates, in that
\* order, and when it returns, it returns the number of these chunks; when
\* no document has a chunk it returns 0, whatever the embedding service and
\* the index would have done, and leaves the index as it was.
C30_AddCountsEveryChunk ==
    [][\A d \in Uploads, e \in Entities, b \in Backends :
          add_documents(d, e, b) =>
              LET new == BuildRecords(d, e)
                  ids == [i \in DOMAIN new |-> new[i].id]
                  metadatas == [i \in DOMAIN new |-> new[i].metadata]
                  all_chunks == [i \in DOMAIN new |-> new[i].document]
              IN /\ all_chunks = UploadChunks(d)
                 /\ Len(ids) = Len(all_chunks) /\ Len(metadatas) = Len(all_chunks)
                 /\ \A i \in DOMAIN metadatas : metadatas[i].startup_id = e
                 /\ ~retrieved'.raised => retrieved'.added = Len(UploadChunks(d))
                 /\ UploadChunks(d) = <<>> =>
                       /\ ~retrieved'.raised /\ retrieved'.added = 0
                       /\ collection' = collection]_vars

\* an upload of a pitch deck, an email and an update, one chunk each, was
\* added and 3 was returned
C30_Witness ==
    /\ retrieved.op = "add_documents" /\ ~retrieved.raised /\ retrieved.added = 3
    /\ \E i \in DOMAIN collection : collection[i].metadata.doc_type = "update"

====
